---------------------------- MODULE Spec2Model ----------------------------
(***************************************************************************)
(* Model of create-test-audio.py: create_test_audio(filename, duration,    *)
(* frequency, sample_rate) followed by the __main__ block's final print.   *)
(*                                                                         *)
(* The run is a straight line: compute num_samples, run the generation     *)
(* loop once per index, open the wave file, set its parameters, pack the   *)
(* samples, write the frames, leave the `with` block (which closes the     *)
(* wave object), print the diagnostics, return, print the success line.    *)
(* An exception at any step ends the run (nothing catches it).             *)
(*                                                                         *)
(* Numbers.  duration is counted in half seconds (a dyadic value, exact as *)
(* a Python float), so duration * sample_rate = (duration * rate) / 2.     *)
(* math.sin is taken at the reduced phase (frequency * i) mod sample_rate  *)
(* out of sample_rate, from a table of sin(2*pi*k/n) in units of 10^-8.    *)
(***************************************************************************)
EXTENDS Integers, Sequences, FiniteSets

VARIABLES
    duration,        \* argument `duration`, in half seconds
    frequency,       \* argument/local `frequency` (reassigned at line 27)
    sample_rate,     \* argument `sample_rate`
    writable,        \* whether open(filename, 'wb') can succeed
    num_samples,     \* local num_samples (line 16)
    i,               \* loop index of line 20 (next index to run)
    samples,         \* local list `samples`
    wav_file,        \* the wave.Wave_write object of line 34
    file,            \* the file at `filename` on disk
    packed_samples,  \* local packed_samples (line 40), a byte sequence
    stdout,          \* lines printed so far
    exc,             \* the exception in flight, or "none"
    pc,              \* position in the script
    baseFrequency,   \* history: the `frequency` argument as passed
    freqUsed,        \* history: the frequency line 23 used, per sample
    file0,           \* history: the file at `filename` before the call
    opens            \* history: number of calls of wave.open

vars == << duration, frequency, sample_rate, writable, num_samples, i, samples,
           wav_file, file, packed_samples, stdout, exc, pc, baseFrequency,
           freqUsed, file0, opens >>

-----------------------------------------------------------------------------
(* Bounds of the model *)

MaxHalfSeconds == 4

MaxRate == 8

MaxWriteLen == 2

(* Program constants *)

FreqA == 440

FreqC == 523

Int16Scale == 32767

Channels == 1

SampWidth == 2

\* Values passed as `frequency`: the two the code names, and one other.
Frequencies == {FreqA, FreqC, 330}

-----------------------------------------------------------------------------
(* Arithmetic of lines 16-30 *)

\* int(duration * sample_rate): duration is d half seconds, both operands are
\* >= 0 here, so int() is the integer quotient.
NumSamplesCeil(d, sr) == (d * sr + 1) \div 2

NumSamples(d, sr) == (d * sr) \div 2

\* sin(2*pi*k/n) * 10^8, rounded, for n = 1..12 and k = 0..n-1.
SinTab ==
  << << 0 >>,
     << 0, 0 >>,
     << 0, 86602540, -86602540 >>,
     << 0, 100000000, 0, -100000000 >>,
     << 0, 95105652, 58778525, -58778525, -95105652 >>,
     << 0, 86602540, 86602540, 0, -86602540, -86602540 >>,
     << 0, 78183148, 97492791, 43388374, -43388374, -97492791, -78183148 >>,
     << 0, 70710678, 100000000, 70710678, 0, -70710678, -100000000, -70710678 >>,
     << 0, 64278761, 98480775, 86602540, 34202014, -34202014, -86602540, -98480775, -64278761 >>,
     << 0, 58778525, 95105652, 95105652, 58778525, 0, -58778525, -95105652, -95105652, -58778525 >>,
     << 0, 54064082, 90963200, 98982144, 75574957, 28173256, -28173256, -75574957, -98982144, -90963200, -54064082 >>,
     << 0, 50000000, 86602540, 100000000, 86602540, 50000000, 0, -50000000, -86602540, -100000000, -86602540, -50000000 >> >>

\* math.sin(2 * math.pi * f * (float(k) / sr)), in units of 10^-8.
Sin8(f, k, sr) == SinTab[sr][((f * k) % sr) + 1]

\* line 23: sample = math.sin(...) * 0.3, in units of 10^-9.
\* The same at 50% volume.
AmplitudeHalf(f, k, sr) == Sin8(f, k, sr) * 5

Amplitude(f, k, sr) == Sin8(f, k, sr) * 3

Abs(x) == IF x < 0 THEN -x ELSE x

\* |a9| * 32767 in units of 10^-5 with the remainder dropped; the product is
\* split so that every intermediate value stays below 2^31.
Scaled5(a9) ==
    (Abs(a9) \div 10000) * Int16Scale + ((Abs(a9) % 10000) * Int16Scale) \div 10000

\* round(a * 32767): to the nearest integer.
RoundNearest(a9) ==
    LET m == (Scaled5(a9) + 50000) \div 100000 IN IF a9 < 0 THEN -m ELSE m

\* line 30: int(sample * 32767) drops the fraction, towards zero.
ToInt(a9) ==
    LET m == Scaled5(a9) \div 100000 IN IF a9 < 0 THEN -m ELSE m

\* line 27: frequency = 440 if frequency == 440 else 523
NextFrequency(f) == IF f = FreqA THEN FreqA ELSE FreqC

\* line 26: the test that guards line 27 (the divisor is not 0 here).
AtBoundary(k, sr) == k % (sr \div 2) = 0

-----------------------------------------------------------------------------
(* struct.pack('<h', ...) and the wave file *)

Int16Min == -32768

Int16Max == 32767

InInt16(s) == Int16Min <= s /\ s <= Int16Max

\* '<h': two bytes, low byte first, of the two's complement of s.
LE16BigEndian(s) == LET u == IF s < 0 THEN s + 65536 ELSE s IN << u \div 256, u % 256 >>

LE16(s) == LET u == IF s < 0 THEN s + 65536 ELSE s IN << u % 256, u \div 256 >>

RECURSIVE Pack(_)
\* line 40: struct.pack('<' + 'h' * len(samples), *samples)
Pack(ss) == IF ss = << >> THEN << >> ELSE LE16(Head(ss)) \o Pack(Tail(ss))

\* struct.pack raises struct.error unless every value fits the 'h' format.
CanPackAlways(ss) == TRUE

CanPack(ss) == \A k \in 1..Len(ss) : InInt16(ss[k])

NoHandle ==
    [ opened |-> FALSE, closed |-> FALSE, nchannels |-> 0, sampwidth |-> 0,
      framerate |-> 0, headerwritten |-> FALSE, datawritten |-> 0 ]

AbsentFile ==
    [ exists |-> FALSE, hasHeader |-> FALSE, riffSize |-> 0, fmtChannels |-> 0,
      fmtRate |-> 0, byteRate |-> 0, blockAlign |-> 0, bits |-> 0,
      dataLen |-> 0, data |-> << >> ]

\* open(filename, 'wb') creates the file or truncates it to zero bytes.
TruncatedFile == [ AbsentFile EXCEPT !.exists = TRUE ]

\* Wave_write._write_header: the RIFF/WAVE header for `datalen` data bytes.
WithHeader(f, w, datalen) ==
    [ f EXCEPT !.hasHeader = TRUE,
               !.riffSize = 36 + datalen,
               !.fmtChannels = w.nchannels,
               !.fmtRate = w.framerate,
               !.byteRate = w.nchannels * w.framerate * w.sampwidth,
               !.blockAlign = w.nchannels * w.sampwidth,
               !.bits = w.sampwidth * 8,
               !.dataLen = datalen ]

\* A file left at `filename` by an earlier run: one frame at 8000 Hz.
OldFile ==
    [ exists |-> TRUE, hasHeader |-> TRUE, riffSize |-> 38, fmtChannels |-> 1,
      fmtRate |-> 8000, byteRate |-> 16000, blockAlign |-> 2, bits |-> 16,
      dataLen |-> 2, data |-> << 1, 0 >> ]

-----------------------------------------------------------------------------
(* The call create_test_audio(filename, duration, frequency, sample_rate) *)

Init ==
    /\ duration \in 0..MaxHalfSeconds
    /\ frequency \in Frequencies
    /\ sample_rate \in 0..MaxRate
    /\ writable \in BOOLEAN
    /\ file \in {AbsentFile, OldFile}
    /\ num_samples = 0
    /\ i = 0
    /\ samples = << >>
    /\ wav_file = NoHandle
    /\ packed_samples = << >>
    /\ stdout = << >>
    /\ exc = "none"
    /\ pc = "start"
    /\ baseFrequency = frequency
    /\ freqUsed = << >>
    /\ file0 = file
    /\ opens = 0

\* The same step with the target file opened (truncated) before generation.
CalcNumSamplesOpenFirst ==
    /\ pc = "start"
    /\ num_samples' = NumSamples(duration, sample_rate)
    /\ samples' = << >>
    /\ i' = 0
    /\ pc' = "loop"
    /\ file' = IF writable THEN TruncatedFile ELSE file
    /\ UNCHANGED << duration, frequency, sample_rate, writable, wav_file,
                    packed_samples, stdout, exc, baseFrequency, freqUsed,
                    file0, opens >>

\* lines 16-19: num_samples = int(duration * sample_rate); samples = []
CalcNumSamples ==
    /\ pc = "start"
    /\ num_samples' = NumSamples(duration, sample_rate)
    /\ samples' = << >>
    /\ i' = 0
    /\ pc' = "loop"
    /\ UNCHANGED << duration, frequency, sample_rate, writable, wav_file, file,
                    packed_samples, stdout, exc, baseFrequency, freqUsed,
                    file0, opens >>

\* lines 20-31, one iteration: the sample is computed with the frequency held
\* on entry, then line 27 may reassign the frequency, then the sample is
\* converted and appended.
LoopStep ==
    /\ pc = "loop"
    /\ i < num_samples
    /\ sample_rate \div 2 # 0
    /\ LET sample == Amplitude(frequency, i, sample_rate) IN
         /\ frequency' = IF AtBoundary(i, sample_rate)
                           THEN NextFrequency(frequency) ELSE frequency
         /\ samples' = Append(samples, ToInt(sample))
    /\ freqUsed' = Append(freqUsed, frequency)
    /\ i' = i + 1
    /\ UNCHANGED << duration, sample_rate, writable, num_samples, wav_file,
                    file, packed_samples, stdout, exc, pc, baseFrequency,
                    file0, opens >>

\* line 26 with sample_rate // 2 == 0: i % 0 raises ZeroDivisionError before
\* anything is appended.
LoopZeroDiv ==
    /\ pc = "loop"
    /\ i < num_samples
    /\ sample_rate \div 2 = 0
    /\ exc' = "ZeroDivisionError"
    /\ pc' = "raised"
    /\ UNCHANGED << duration, frequency, sample_rate, writable, num_samples, i,
                    samples, wav_file, file, packed_samples, stdout,
                    baseFrequency, freqUsed, file0, opens >>

\* line 20: range(num_samples) is exhausted.
LoopExit ==
    /\ pc = "loop"
    /\ i >= num_samples
    /\ pc' = "open"
    /\ UNCHANGED << duration, frequency, sample_rate, writable, num_samples, i,
                    samples, wav_file, file, packed_samples, stdout, exc,
                    baseFrequency, freqUsed, file0, opens >>

-----------------------------------------------------------------------------
(* Lines 34-41: the `with wave.open(filename, 'wb') as wav_file` block *)

\* line 34, open() succeeds: the file is created or truncated.
OpenOk ==
    /\ pc = "open"
    /\ writable
    /\ opens' = opens + 1
    /\ file' = TruncatedFile
    /\ wav_file' = [ NoHandle EXCEPT !.opened = TRUE ]
    /\ pc' = "setparams"
    /\ UNCHANGED << duration, frequency, sample_rate, writable, num_samples, i,
                    samples, packed_samples, stdout, exc, baseFrequency,
                    freqUsed, file0 >>

\* A failed open whose error is swallowed and the call returns.
OpenFailSwallowed ==
    /\ pc = "open"
    /\ ~writable
    /\ opens' = opens + 1
    /\ pc' = "returned"
    /\ UNCHANGED << duration, frequency, sample_rate, writable, num_samples, i,
                    samples, wav_file, file, packed_samples, stdout, exc,
                    baseFrequency, freqUsed, file0 >>

\* line 34, open() raises OSError: no wave object exists, the `with` block is
\* not entered, and the error leaves create_test_audio and the script.
OpenFail ==
    /\ pc = "open"
    /\ ~writable
    /\ opens' = opens + 1
    /\ exc' = "OSError"
    /\ pc' = "raised"
    /\ UNCHANGED << duration, frequency, sample_rate, writable, num_samples, i,
                    samples, wav_file, file, packed_samples, stdout,
                    baseFrequency, freqUsed, file0 >>

\* lines 35-37: setnchannels(1), setsampwidth(2), setframerate(sample_rate).
SetParams ==
    /\ pc = "setparams"
    /\ sample_rate > 0
    /\ wav_file' = [ wav_file EXCEPT !.nchannels = Channels,
                                     !.sampwidth = SampWidth,
                                     !.framerate = sample_rate ]
    /\ pc' = "pack"
    /\ UNCHANGED << duration, frequency, sample_rate, writable, num_samples, i,
                    samples, file, packed_samples, stdout, exc, baseFrequency,
                    freqUsed, file0, opens >>

\* The same error with no `with` block around it: nothing closes the handle.
SetFramerateErrorNoWith ==
    /\ pc = "setparams"
    /\ sample_rate <= 0
    /\ wav_file' = [ wav_file EXCEPT !.nchannels = Channels,
                                     !.sampwidth = SampWidth ]
    /\ exc' = "wave.Error"
    /\ pc' = "raised"
    /\ UNCHANGED << duration, frequency, sample_rate, writable, num_samples, i,
                    samples, file, packed_samples, stdout, baseFrequency,
                    freqUsed, file0, opens >>

\* line 37 with sample_rate <= 0: setframerate raises wave.Error('bad frame
\* rate') after lines 35-36 ran; control goes to the exit of the `with` block.
SetFramerateError ==
    /\ pc = "setparams"
    /\ sample_rate <= 0
    /\ wav_file' = [ wav_file EXCEPT !.nchannels = Channels,
                                     !.sampwidth = SampWidth ]
    /\ exc' = "wave.Error"
    /\ pc' = "exit"
    /\ UNCHANGED << duration, frequency, sample_rate, writable, num_samples, i,
                    samples, file, packed_samples, stdout, baseFrequency,
                    freqUsed, file0, opens >>

\* line 40, every sample fits 16 bits.
PackOk ==
    /\ pc = "pack"
    /\ CanPack(samples)
    /\ packed_samples' = Pack(samples)
    /\ pc' = "write"
    /\ UNCHANGED << duration, frequency, sample_rate, writable, num_samples, i,
                    samples, wav_file, file, stdout, exc, baseFrequency,
                    freqUsed, file0, opens >>

\* line 40, some sample does not fit: struct.pack raises struct.error and
\* packed_samples is never bound.
PackError ==
    /\ pc = "pack"
    /\ ~CanPack(samples)
    /\ exc' = "struct.error"
    /\ pc' = "exit"
    /\ UNCHANGED << duration, frequency, sample_rate, writable, num_samples, i,
                    samples, wav_file, file, packed_samples, stdout,
                    baseFrequency, freqUsed, file0, opens >>

\* line 41: writeframes writes the header for len(data) bytes, then the data.
WriteFrames ==
    /\ pc = "write"
    /\ LET nframes == Len(packed_samples) \div (wav_file.sampwidth * wav_file.nchannels)
           datalength == nframes * wav_file.nchannels * wav_file.sampwidth
       IN  file' = [ WithHeader(file, wav_file, datalength)
                       EXCEPT !.data = packed_samples ]
    /\ wav_file' = [ wav_file EXCEPT !.headerwritten = TRUE,
                                     !.datawritten = Len(packed_samples) ]
    /\ pc' = "exit"
    /\ UNCHANGED << duration, frequency, sample_rate, writable, num_samples, i,
                    samples, packed_samples, stdout, exc, baseFrequency,
                    freqUsed, file0, opens >>

\* Leaving the `with` block (normally or with an exception in flight) calls
\* Wave_write.close(): it writes a header for zero frames if none was written
\* (raising wave.Error when no frame rate was set), and in a `finally` closes
\* the file.  An exception in flight keeps propagating.
WithExit ==
    /\ pc = "exit"
    /\ wav_file' = [ wav_file EXCEPT
                       !.closed = TRUE,
                       !.headerwritten = @ \/ wav_file.framerate # 0 ]
    /\ file' = IF ~wav_file.headerwritten /\ wav_file.framerate # 0
                 THEN WithHeader(file, wav_file, 0) ELSE file
    /\ exc' = IF ~wav_file.headerwritten /\ wav_file.framerate = 0
                THEN "wave.Error" ELSE exc
    /\ pc' = IF exc' = "none" THEN "print" ELSE "raised"
    /\ UNCHANGED << duration, frequency, sample_rate, writable, num_samples, i,
                    samples, packed_samples, stdout, baseFrequency, freqUsed,
                    file0, opens >>

\* lines 43-46: the four diagnostic lines, then the function returns.
PrintDiagnostics ==
    /\ pc = "print"
    /\ stdout' = stdout \o << "Created test audio file", "Duration",
                              "Sample rate", "File size" >>
    /\ pc' = "returned"
    /\ UNCHANGED << duration, frequency, sample_rate, writable, num_samples, i,
                    samples, wav_file, file, packed_samples, exc,
                    baseFrequency, freqUsed, file0, opens >>

\* line 51: the caller's print after create_test_audio returned.
MainPrint ==
    /\ pc = "returned"
    /\ stdout' = Append(stdout, "Test audio file created successfully!")
    /\ pc' = "done"
    /\ UNCHANGED << duration, frequency, sample_rate, writable, num_samples, i,
                    samples, wav_file, file, packed_samples, exc,
                    baseFrequency, freqUsed, file0, opens >>

\* The whole script.  PackError is left out: every generated sample fits 16
\* bits (C3_InRange), so it is never enabled here; SpecWrite exercises it.
Next ==
    \/ CalcNumSamples
    \/ LoopStep
    \/ LoopZeroDiv
    \/ LoopExit
    \/ OpenOk
    \/ OpenFail
    \/ SetParams
    \/ SetFramerateError
    \/ PackOk
    \/ WriteFrames
    \/ WithExit
    \/ PrintDiagnostics
    \/ MainPrint

Spec == Init /\ [][Next]_vars

-----------------------------------------------------------------------------
(* The writing step (lines 34-46) applied to an arbitrary sample list *)

SampleProbes == { Int16Min - 1, Int16Min, -1, 0, 1, Int16Max, Int16Max + 1 }

SampleLists ==
    UNION { [ 1..n -> SampleProbes ] : n \in 0..MaxWriteLen }

InitWrite ==
    /\ duration = 0
    /\ frequency = FreqA
    /\ sample_rate \in 0..MaxRate
    /\ writable \in BOOLEAN
    /\ file \in {AbsentFile, OldFile}
    /\ samples \in SampleLists
    /\ num_samples = Len(samples)
    /\ i = Len(samples)
    /\ wav_file = NoHandle
    /\ packed_samples = << >>
    /\ stdout = << >>
    /\ exc = "none"
    /\ pc = "open"
    /\ baseFrequency = frequency
    /\ freqUsed = << >>
    /\ file0 = file
    /\ opens = 0

NextWrite ==
    \/ OpenOk
    \/ OpenFail
    \/ SetParams
    \/ SetFramerateError
    \/ PackOk
    \/ PackError
    \/ WriteFrames
    \/ WithExit
    \/ PrintDiagnostics
    \/ MainPrint

SpecWrite == InitWrite /\ [][NextWrite]_vars

-----------------------------------------------------------------------------
(* A standard reader of the written container *)

FromLE16(lo, hi) ==
    LET u == lo + 256 * hi IN IF u >= 32768 THEN u - 65536 ELSE u

RECURSIVE Unpack(_)
Unpack(bs) ==
    IF Len(bs) < 2 THEN << >>
    ELSE << FromLE16(bs[1], bs[2]) >> \o Unpack(SubSeq(bs, 3, Len(bs)))

\* What wave.open(filename, 'rb') reports for a file.
ReadWav(f) ==
    [ nchannels |-> f.fmtChannels,
      sampwidth |-> (f.bits + 7) \div 8,
      framerate |-> f.fmtRate,
      nframes   |-> f.dataLen \div f.blockAlign,
      frames    |-> Unpack(SubSeq(f.data, 1, f.dataLen)) ]

WellFormed(f) ==
    /\ f.exists
    /\ f.hasHeader
    /\ f.riffSize = 36 + f.dataLen
    /\ f.dataLen = Len(f.data)
    /\ f.fmtChannels > 0 /\ f.fmtRate > 0 /\ f.bits > 0
    /\ f.blockAlign = f.fmtChannels * (f.bits \div 8)
    /\ f.byteRate = f.fmtRate * f.blockAlign
    /\ f.dataLen % f.blockAlign = 0

ValidInput == duration > 0 /\ sample_rate > 0

GenerationDone == pc \notin {"start", "loop"} /\ exc # "ZeroDivisionError"

-----------------------------------------------------------------------------
(* Claims *)

\* C1: for a positive duration and a positive sample rate, num_samples is
\* floor(duration * sample_rate) from line 16 on, the list grows by one entry
\* per loop index, and the finished list has exactly num_samples entries.
C1_Length ==
    ValidInput =>
      /\ pc # "start" =>
           /\ 2 * num_samples <= duration * sample_rate
           /\ duration * sample_rate < 2 * (num_samples + 1)
      /\ pc = "loop" => Len(samples) = i /\ i <= num_samples
      /\ GenerationDone => Len(samples) = num_samples

C1_Witness ==
    /\ pc = "done"
    /\ duration * sample_rate = 15
    /\ Len(samples) = 7

\* C2 (as claimed): with base frequency 440 and sample_rate >= 2, at every
\* index i with i mod (sample_rate // 2) = 0 the active frequency switches to
\* 523 if it was 440 and to 440 otherwise.
C2_Alternates ==
    [][ ( /\ pc = "loop"
          /\ baseFrequency = FreqA
          /\ sample_rate >= 2
          /\ i < num_samples
          /\ i % (sample_rate \div 2) = 0 )
        => frequency' = IF frequency = FreqA THEN FreqC ELSE FreqA ]_vars

\* C3: every appended sample lies in [-32768, 32767] and within
\* round(0.3 * 32767) = 9830 of zero.
C3_InRange ==
    \A k \in 1..Len(samples) :
        /\ -32768 <= samples[k] /\ samples[k] <= 32767
        /\ Abs(samples[k]) <= RoundNearest(300000000)

C3_Witness ==
    /\ pc = "done"
    /\ \E k \in 1..Len(samples) : samples[k] = -9830
    /\ \E k \in 1..Len(samples) : samples[k] = 9830

\* C4: after a normal return, reading the file back gives 1 channel, 2 bytes
\* per sample, the frame rate passed in, as many frames as samples, the
\* frames equal to the samples in order, and 2 data bytes per sample.
C4_RoundTrip ==
    pc \in {"returned", "done"} =>
      /\ WellFormed(file)
      /\ ReadWav(file).nchannels = 1
      /\ ReadWav(file).sampwidth = 2
      /\ ReadWav(file).framerate = sample_rate
      /\ ReadWav(file).nframes = Len(samples)
      /\ ReadWav(file).frames = samples
      /\ Len(file.data) = 2 * Len(samples)

C4_Witness ==
    /\ pc = "done"
    /\ Len(samples) >= 3
    /\ \E k \in 1..Len(samples) : samples[k] < 0
    /\ \E k \in 1..Len(samples) : samples[k] > 255

\* C5: when the path cannot be opened, the call fails with an I/O error that
\* reaches the invoker after a single attempt, nothing is printed, and the
\* path holds what it held before: no file, or a well-formed one.
C5_OpenFailure ==
    (opens > 0 /\ ~writable) =>
      /\ pc = "raised"
      /\ exc = "OSError"
      /\ opens = 1
      /\ stdout = << >>
      /\ file = file0
      /\ ~file.exists \/ WellFormed(file)

C5_Witness ==
    /\ pc = "raised"
    /\ exc = "OSError"
    /\ opens = 1
    /\ Len(samples) > 0

\* C6 (as claimed): for a positive duration and a positive sample rate,
\* sample_rate = 1 included, no error ends the run before the loop has
\* appended all num_samples samples.
C6_LoopCompletes ==
    ValidInput => ~(pc = "raised" /\ Len(samples) < num_samples)

\* C7: a sample list holding a value outside [-32768, 32767] is rejected with
\* an error: nothing is packed, no data byte reaches the file, nothing is
\* printed; and data bytes in the file always decode to the samples, all in range.
C7_Rejects ==
    /\ (wav_file.opened /\ file.data # << >>) =>
          CanPack(samples) /\ Unpack(file.data) = samples
    /\ ~(\A k \in 1..Len(samples) : -32768 <= samples[k] /\ samples[k] <= 32767) =>
          /\ pc \notin {"write", "print", "returned", "done"}
          /\ packed_samples = << >>
          /\ stdout = << >>
          /\ (wav_file.closed /\ wav_file.framerate # 0) => exc = "struct.error"

C7_Witness ==
    /\ pc = "raised"
    /\ exc = "struct.error"
    /\ \E k \in 1..Len(samples) : samples[k] = 32768
    /\ wav_file.closed

\* C8 (as claimed): every stored sample is round(a * 32767), a being the
\* amplitude at its index for the frequency active there.
C8_Rounds ==
    \A k \in 1..Len(samples) :
        samples[k] = RoundNearest(Amplitude(freqUsed[k], k - 1, sample_rate))

\* C8 (amended): every stored sample is a * 32767 with the fraction dropped
\* (towards zero): |sample| <= |a * 32767| < |sample| + 1 with the sign of a;
\* sample 0 is 0.
C8_Truncates ==
    /\ Len(freqUsed) = Len(samples)
    /\ Len(samples) > 0 => samples[1] = 0 /\ freqUsed[1] = baseFrequency
    /\ \A k \in 1..Len(samples) :
         LET a == Amplitude(freqUsed[k], k - 1, sample_rate)
             s == samples[k]
         IN  /\ Abs(s) * 100000 <= Scaled5(a)
             /\ Scaled5(a) < (Abs(s) + 1) * 100000
             /\ s > 0 => a > 0
             /\ s < 0 => a < 0

C8_Witness ==
    /\ pc = "done"
    /\ \E k \in 1..Len(samples) :
         /\ samples[k] = 6950
         /\ RoundNearest(Amplitude(freqUsed[k], k - 1, sample_rate)) = 6951

\* C9: the wave file is closed on every way out of the `with` block.  After a
\* normal exit it was opened, holds all packed bytes under a header of that
\* length, and is closed before anything is printed; after an error raised
\* once the file was open it is closed, the error goes on, nothing is printed.
C9_Closed ==
    /\ pc \in {"print", "returned", "done"} =>
         /\ wav_file.opened /\ wav_file.closed
         /\ exc = "none"
         /\ file.hasHeader
         /\ file.data = packed_samples
         /\ file.dataLen = Len(packed_samples)
         /\ wav_file.datawritten = Len(packed_samples)
    /\ stdout # << >> => wav_file.closed /\ exc = "none"
    /\ (pc = "raised" /\ wav_file.opened) =>
         wav_file.closed /\ exc # "none" /\ stdout = << >>
    /\ exc # "none" => stdout = << >>

C9_Witness ==
    /\ pc = "raised"
    /\ wav_file.opened
    /\ wav_file.closed
    /\ exc = "wave.Error"

\* C10: generation is over before the file is opened, and an error raised
\* during generation leaves the target path as it was: no open was attempted,
\* nothing was created, truncated or overwritten.
C10_GenerationBeforeOpen ==
    /\ (pc \in {"start", "loop"} \/ exc = "ZeroDivisionError") =>
         /\ file = file0
         /\ opens = 0
         /\ wav_file = NoHandle
    /\ opens > 0 => Len(samples) = num_samples

C10_Witness ==
    /\ pc = "raised"
    /\ exc = "ZeroDivisionError"
    /\ writable
    /\ file0 = OldFile
    /\ file = OldFile

=============================================================================
